---- MODULE Spec2Model ----
(***************************************************************************)
(* Child Tax Credit reform dashboard (src/app.py).                         *)
(*                                                                         *)
(* Four data frames are loaded once at import time; filter_data selects    *)
(* the rows of a scenario, update_graph assembles two value dictionaries   *)
(* from the filtered frames and hands them to build_summary_table or       *)
(* build_param_table, toggle_custom shows or hides the custom controls.    *)
(*                                                                         *)
(* A data frame is a record [columns, rows]: the set of its column names   *)
(* and the sequence of its rows (records), in file order.  Numbers are     *)
(* fixed-point decimals counted in hundredths (12040 stands for 120.40).   *)
(* A call either returns a value or raises; both are records with a kind.  *)
(* df[mask] keeps the rows the mask holds for, in order, under the same    *)
(* columns.                                                                *)
(***************************************************************************)
EXTENDS Integers, Sequences, FiniteSets, TLC

VARIABLES budget_df, poverty_df, dists_df, params_df,
          inputs, result, custom_style,
          args, call

vars == <<budget_df, poverty_df, dists_df, params_df,
          inputs, result, custom_style, args, call>>

datasets == <<budget_df, poverty_df, dists_df, params_df>>

(***************************************************************************)
(* Bounds of the model.                                                    *)
(***************************************************************************)
\* Longest data frame drawn for the frame under variation.
MaxRows == 2
\* The numeric values offered to the table builders are 0, 0.05, ...,
\* MaxStep * 0.05 and the two values of the documented example.
MaxStep == 3

(***************************************************************************)
(* Outcomes of a call.                                                     *)
(***************************************************************************)
Ok(v) == [kind |-> "ok", value |-> v]

Raise(e, a) == [kind |-> "raise", exc |-> e, arg |-> a]

NoCall == [kind |-> "none"]

(***************************************************************************)
(* Data frames.                                                            *)
(***************************************************************************)
KeyColumns == {"type", "ctc_c", "u6_bonus", "ps"}

BudgetColumns == KeyColumns \cup {"value_all", "value_ctc"}

PovertyColumns == KeyColumns \cup {"spm_all", "spm_u18"}

DistsColumns == KeyColumns \cup {"decile", "mean", "pc_aftertaxinc", "metr_reform"}

ParamsColumns == KeyColumns \cup
    {"max_c", "bon6", "max_r", "q_age", "thresh", "pir", "pos", "por"}

DatasetNames == {"budget", "poverty", "dists", "params"}

ColumnsOf(name) ==
    CASE name = "budget" -> BudgetColumns
      [] name = "poverty" -> PovertyColumns
      [] name = "dists" -> DistsColumns
      [] name = "params" -> ParamsColumns

\* pd.DataFrame(): no columns, no rows.
EmptyDataFrame == [columns |-> {}, rows |-> <<>>]

(***************************************************************************)
(* filter_data                                                             *)
(***************************************************************************)
NamedPolicies == {"cl", "tcja", "house25", "senate25"}

lookup ==
    [p \in NamedPolicies |->
        CASE p = "cl" -> "CL"
          [] p = "tcja" -> "TCJA"
          [] p = "house25" -> "House25"
          [] p = "senate25" -> "Senate25"]

\* filter_data comparing the type column with the selector itself instead of
\* its lookup value.
filter_data_raw_key(df, policy, refund, ctc_c, u6_bonus, ps) ==
    IF policy \in NamedPolicies
    THEN LET Keep(r) == r.type = policy
         IN [columns |-> df.columns, rows |-> SelectSeq(df.rows, Keep)]
    ELSE IF policy = "custom"
    THEN LET Keep(r) == /\ r.type = refund
                        /\ r.ctc_c = ctc_c
                        /\ r.u6_bonus = u6_bonus
                        /\ r.ps = ps
         IN [columns |-> df.columns, rows |-> SelectSeq(df.rows, Keep)]
    ELSE EmptyDataFrame

\* filter_data without the under-6 bonus in the custom match.
filter_data_no_bonus(df, policy, refund, ctc_c, u6_bonus, ps) ==
    IF policy \in NamedPolicies
    THEN LET Keep(r) == r.type = lookup[policy]
         IN [columns |-> df.columns, rows |-> SelectSeq(df.rows, Keep)]
    ELSE IF policy = "custom"
    THEN LET Keep(r) == /\ r.type = refund
                        /\ r.ctc_c = ctc_c
                        /\ r.ps = ps
         IN [columns |-> df.columns, rows |-> SelectSeq(df.rows, Keep)]
    ELSE EmptyDataFrame

\* filter_data matching the maximum credit for named scenarios too.
filter_data_credit_always(df, policy, refund, ctc_c, u6_bonus, ps) ==
    IF policy \in NamedPolicies
    THEN LET Keep(r) == r.type = lookup[policy] /\ r.ctc_c = ctc_c
         IN [columns |-> df.columns, rows |-> SelectSeq(df.rows, Keep)]
    ELSE IF policy = "custom"
    THEN LET Keep(r) == /\ r.type = refund
                        /\ r.ctc_c = ctc_c
                        /\ r.u6_bonus = u6_bonus
                        /\ r.ps = ps
         IN [columns |-> df.columns, rows |-> SelectSeq(df.rows, Keep)]
    ELSE EmptyDataFrame

filter_data(df, policy, refund, ctc_c, u6_bonus, ps) ==
    IF policy \in NamedPolicies
    THEN LET Keep(r) == r.type = lookup[policy]
         IN [columns |-> df.columns, rows |-> SelectSeq(df.rows, Keep)]
    ELSE IF policy = "custom"
    THEN LET Keep(r) == /\ r.type = refund
                        /\ r.ctc_c = ctc_c
                        /\ r.u6_bonus = u6_bonus
                        /\ r.ps = ps
         IN [columns |-> df.columns, rows |-> SelectSeq(df.rows, Keep)]
    ELSE EmptyDataFrame

\* A filter_data that drops the unselected rows from df itself.
frame_filtered_in_place(df, policy, refund, ctc_c, u6_bonus, ps) ==
    IF policy \in NamedPolicies
    THEN LET Keep(r) == r.type = lookup[policy]
         IN [columns |-> df.columns, rows |-> SelectSeq(df.rows, Keep)]
    ELSE df

\* filter_data only reads df: boolean indexing builds a new frame, so the
\* frame passed in is the same after the call.
frame_after_filter(df, policy, refund, ctc_c, u6_bonus, ps) == df

(***************************************************************************)
(* round(x, 1) on a number counted in hundredths: the nearest tenth, a tie *)
(* going to the even tenth (Python and numpy both round half to even).     *)
(* ndigits = 0 rounds to units, 2 or more leaves hundredths as they are.   *)
(***************************************************************************)
Quantum(ndigits) == IF ndigits <= 0 THEN 100 ELSE IF ndigits = 1 THEN 10 ELSE 1

\* Rounding with a tie going up.
round_half_up(x, ndigits) ==
    LET q == Quantum(ndigits)
        lo == x \div q
        rem == x % q
    IN IF 2 * rem < q THEN lo * q ELSE (lo + 1) * q

round(x, ndigits) ==
    LET q == Quantum(ndigits)
        lo == x \div q
        rem == x % q
    IN IF 2 * rem < q THEN lo * q
       ELSE IF 2 * rem > q THEN (lo + 1) * q
       ELSE IF lo % 2 = 0 THEN lo * q ELSE (lo + 1) * q

(***************************************************************************)
(* The table builders.  A value mapping is a function from field names to  *)
(* numbers; d[k] on a mapping without k raises KeyError(k).  The rows list *)
(* is evaluated left to right: row by row, the baseline value first.       *)
(***************************************************************************)
SummaryRows ==
    << <<"Annual Value of All Child Tax Benefits (2025 $)", "value_all">>,
       <<"Annual Value of Child Tax Credit (2025 $)", "value_ctc">>,
       <<"Average Total Benefit ($)", "mean">>,
       <<"Percent Change in After-Tax Income (%)", "pc_aftertaxinc">>,
       <<"EMTR on Labor (%)", "metr_reform">>,
       <<"SPM Poverty Rate - Total U.S. (%)", "spm_all">>,
       <<"SPM Poverty Rate - Under 18 (%)", "spm_u18">> >>

ParamRows ==
    << <<"Maximum Credit Amount", "max_c">>,
       <<"Bonus Under 6", "bon6">>,
       <<"Max Refundable Amount", "max_r">>,
       <<"Qualifying Ages", "q_age">>,
       <<"Refund Threshold", "thresh">>,
       <<"Phase-In Rate", "pir">>,
       <<"Phaseout Start", "pos">>,
       <<"Phaseout Rate", "por">> >>

\* The dictionary reads of a rows list, in evaluation order: <<side, key>>.
RowReads(spec) ==
    [n \in 1..(2 * Len(spec)) |->
        <<IF n % 2 = 1 THEN "base" ELSE "reform", spec[(n + 1) \div 2][2]>>]

\* The first read of the rows list that fails, 0 when none does.
FirstMissing(spec, base_vals, reform_vals) ==
    LET reads == RowReads(spec)
        bad == {n \in DOMAIN reads :
                   reads[n][2] \notin
                       DOMAIN (IF reads[n][1] = "base" THEN base_vals ELSE reform_vals)}
    IN IF bad = {} THEN 0 ELSE CHOOSE n \in bad : \A m \in bad : n <= m

\* A rows list whose reform entries read the baseline mapping.
Rows_base_twice(spec, base_vals, reform_vals) ==
    [i \in 1..Len(spec) |->
        <<spec[i][1], base_vals[spec[i][2]], base_vals[spec[i][2]]>>]

\* rows = [(label, base_vals[key], reform_vals[key]), ...]
Rows(spec, base_vals, reform_vals) ==
    [i \in 1..Len(spec) |->
        <<spec[i][1], base_vals[spec[i][2]], reform_vals[spec[i][2]]>>]

\* list(zip(*rows))[c - 1]
Column(rows, c) == [i \in 1..Len(rows) |-> rows[i][c]]

Figure(title, headers, cells) ==
    [kind |-> "figure", title |-> title, headers |-> headers, cells |-> cells]

build_summary_table(base_vals, reform_vals) ==
    LET miss == FirstMissing(SummaryRows, base_vals, reform_vals)
        rows == Rows(SummaryRows, base_vals, reform_vals)
    IN IF miss # 0
       THEN Raise("KeyError", RowReads(SummaryRows)[miss][2])
       ELSE Figure("Comparing Baseline and Reform",
                   <<"", "Baseline Policy", "Reform Policy", "Difference">>,
                   << Column(rows, 1), Column(rows, 2), Column(rows, 3),
                      [i \in 1..Len(rows) |-> round(rows[i][3] - rows[i][2], 1)] >>)

build_param_table(base_vals, reform_vals) ==
    LET miss == FirstMissing(ParamRows, base_vals, reform_vals)
        rows == Rows(ParamRows, base_vals, reform_vals)
    IN IF miss # 0
       THEN Raise("KeyError", RowReads(ParamRows)[miss][2])
       ELSE Figure("Policy Parameters",
                   <<"", "Baseline Policy", "Reform Policy">>,
                   << Column(rows, 1), Column(rows, 2), Column(rows, 3) >>)

(***************************************************************************)
(* update_graph                                                            *)
(***************************************************************************)
\* frame[col].values[0]
Values0(frame, col) ==
    IF col \notin frame.columns THEN Raise("KeyError", col)
    ELSE IF Len(frame.rows) = 0 THEN Raise("IndexError", "0")
    ELSE Ok(frame.rows[1][col])

\* The read without the decile mask: the first row of the scenario.
Values_any_decile(frame, col) ==
    IF "decile" \notin frame.columns THEN Raise("KeyError", "decile")
    ELSE Values0(frame, col)

\* frame[frame['decile'] == "ALL"][col].values[0]
ValuesALL(frame, col) ==
    IF "decile" \notin frame.columns THEN Raise("KeyError", "decile")
    ELSE LET IsALL(r) == r.decile = "ALL"
         IN Values0([columns |-> frame.columns,
                     rows |-> SelectSeq(frame.rows, IsALL)], col)

\* The keys of base_vals and reform_vals, in the order of the dict displays.
ValueFields ==
    << "value_all", "value_ctc", "mean", "pc_aftertaxinc", "metr_reform",
       "spm_all", "spm_u18", "max_c", "bon6", "max_r", "q_age", "thresh",
       "pir", "pos", "por" >>

FieldNames == {ValueFields[i] : i \in DOMAIN ValueFields}

\* One of the two dict displays: its entries are evaluated top to bottom, so
\* it is Ok(mapping), or the exception of the first read that raises.
vals_dict(bud, fig, pov, param) ==
    LET read == << Values0(bud, "value_all"),
                   Values0(bud, "value_ctc"),
                   ValuesALL(fig, "mean"),
                   ValuesALL(fig, "pc_aftertaxinc"),
                   ValuesALL(fig, "metr_reform"),
                   Values0(pov, "spm_all"),
                   Values0(pov, "spm_u18"),
                   Values0(param, "max_c"),
                   Values0(param, "bon6"),
                   Values0(param, "max_r"),
                   Values0(param, "q_age"),
                   Values0(param, "thresh"),
                   Values0(param, "pir"),
                   Values0(param, "pos"),
                   Values0(param, "por") >>
        bad == {i \in DOMAIN read : read[i].kind = "raise"}
    IN IF bad # {}
       THEN read[CHOOSE i \in bad : \A j \in bad : i <= j]
       ELSE Ok([value_all |-> read[1].value, value_ctc |-> read[2].value,
                mean |-> read[3].value, pc_aftertaxinc |-> read[4].value,
                metr_reform |-> read[5].value, spm_all |-> read[6].value,
                spm_u18 |-> read[7].value, max_c |-> read[8].value,
                bon6 |-> read[9].value, max_r |-> read[10].value,
                q_age |-> read[11].value, thresh |-> read[12].value,
                pir |-> read[13].value, pos |-> read[14].value,
                por |-> read[15].value])

update_graph(bdf, pdf, ddf, prdf, base, reform, refund, ctc_c, u6_bonus, ps, tabs) ==
    LET base_bud == filter_data(bdf, base, refund, ctc_c, u6_bonus, ps)
        reform_bud == filter_data(bdf, reform, refund, ctc_c, u6_bonus, ps)
        base_pov == filter_data(pdf, base, refund, ctc_c, u6_bonus, ps)
        reform_pov == filter_data(pdf, reform, refund, ctc_c, u6_bonus, ps)
        base_fig == filter_data(ddf, base, refund, ctc_c, u6_bonus, ps)
        reform_fig == filter_data(ddf, reform, refund, ctc_c, u6_bonus, ps)
        base_param == filter_data(prdf, base, refund, ctc_c, u6_bonus, ps)
        reform_param == filter_data(prdf, reform, refund, ctc_c, u6_bonus, ps)
        base_vals == vals_dict(base_bud, base_fig, base_pov, base_param)
        reform_vals == vals_dict(reform_bud, reform_fig, reform_pov, reform_param)
    IN IF base_vals.kind = "raise" THEN base_vals
       ELSE IF reform_vals.kind = "raise" THEN reform_vals
       ELSE IF tabs = "summary_tab"
       THEN build_summary_table(base_vals.value, reform_vals.value)
       ELSE build_param_table(base_vals.value, reform_vals.value)

\* toggle_custom: the style of the custom-parameter container.
toggle_custom(reform) ==
    IF reform = "custom" THEN [display |-> "block"] ELSE [display |-> "none"]

(***************************************************************************)
(* The data files.  data/*.csv are read once at import; their rows are     *)
(* drawn here from a catalogue of scenarios.  A file holds at most one row *)
(* per scenario (per scenario and decile in the distribution file).        *)
(***************************************************************************)
Key(t, c, u, p) == [type |-> t, ctc_c |-> c, u6_bonus |-> u, ps |-> p]

\* Two named scenarios, a custom one, the four custom scenarios that differ
\* from it in exactly one field, and the two other named scenarios.
Catalogue ==
    << Key("CL", 2000, 0, "CL"),
       Key("TCJA", 2000, 0, "CL"),
       Key("Nonref", 2000, 0, "CL"),
       Key("Refund", 2000, 0, "CL"),
       Key("Nonref", 2200, 0, "CL"),
       Key("Nonref", 2000, 500, "CL"),
       Key("Nonref", 2000, 0, "PT"),
       Key("House25", 2000, 0, "CL"),
       Key("Senate25", 2000, 0, "CL") >>

\* The scenarios the dashboard's files are drawn from, and those the frames
\* handed to filter_data alone are drawn from.
DashboardScenarios == {1, 2, 3}

FilterScenarios == DOMAIN Catalogue

Deciles == {"ALL", "1"}

FieldIndex(col) == CHOOSE i \in DOMAIN ValueFields : ValueFields[i] = col

\* The number in column col of scenario i's row (decile row d = 1, else 0).
CellValue(i, col, d) == 1000 * i + 13 * i * FieldIndex(col) + 7 * d

DataRow(name, i, decile) ==
    [c \in ColumnsOf(name) |->
        IF c \in KeyColumns THEN Catalogue[i][c]
        ELSE IF c = "decile" THEN decile
        ELSE CellValue(i, c, IF decile = "ALL" THEN 0 ELSE 1)]

RowUniverse(name, scenarios) ==
    {DataRow(name, i, d) : i \in scenarios,
                           d \in IF name = "dists" THEN Deciles ELSE {"ALL"}}

NamedTypes == {lookup[p] : p \in NamedPolicies}

\* Two rows of one file that belong to the same scenario (and decile).
SameGrouping(name, r1, r2) ==
    /\ r1.type = r2.type
    /\ \/ r1.type \in NamedTypes
       \/ /\ r1.ctc_c = r2.ctc_c
          /\ r1.u6_bonus = r2.u6_bonus
          /\ r1.ps = r2.ps
    /\ name = "dists" => r1.decile = r2.decile

OneRowPerGrouping(name, rows) ==
    \A i, j \in DOMAIN rows : i # j => ~SameGrouping(name, rows[i], rows[j])

\* The files of at most n rows over the scenarios, in any row order.
Frames(name, scenarios, n) ==
    {[columns |-> ColumnsOf(name), rows |-> rows] :
        rows \in {q \in UNION {[1..k -> RowUniverse(name, scenarios)] : k \in 0..n} :
                     OneRowPerGrouping(name, q)}}

\* The file with a row for every scenario (the per-decile row before ALL).
CompleteFrame(name, scenarios) ==
    LET order == CHOOSE q \in [1..Cardinality(scenarios) -> scenarios] :
                     \A a, b \in DOMAIN q : a < b => q[a] < q[b]
    IN [columns |-> ColumnsOf(name),
        rows |-> IF name = "dists"
                 THEN [n \in 1..(2 * Len(order)) |->
                          DataRow(name, order[(n + 1) \div 2],
                                  IF n % 2 = 1 THEN "1" ELSE "ALL")]
                 ELSE [n \in 1..Len(order) |-> DataRow(name, order[n], "ALL")]]

HeaderOnly(name) == [columns |-> ColumnsOf(name), rows |-> <<>>]

\* load_data for the four files: one file is arbitrary (within MaxRows), the
\* others hold `rest`.
LoadData(varied, frame, Rest) ==
    /\ budget_df = IF varied = "budget" THEN frame ELSE Rest["budget"]
    /\ poverty_df = IF varied = "poverty" THEN frame ELSE Rest["poverty"]
    /\ dists_df = IF varied = "dists" THEN frame ELSE Rest["dists"]
    /\ params_df = IF varied = "params" THEN frame ELSE Rest["params"]

(***************************************************************************)
(* The dashboard: the state after import, and the two callbacks.           *)
(* inputs holds the values of the seven input components; a callback runs  *)
(* when one of its inputs is set, and reads them all.                      *)
(***************************************************************************)
\* Values a component may be set to: dropdown options, and for the two
\* scenario selectors a value that is not an option.
ValuesOf(component) ==
    CASE component = "base" -> {"cl", "tcja", "other"}
      [] component = "reform" -> {"tcja", "custom", "other"}
      [] component = "refund" -> {"Nonref", "Refund"}
      [] component = "ctc_c" -> {2000, 2200}
      [] component = "u6_bonus" -> {0, 500}
      [] component = "ps" -> {"CL", "PT"}
      [] component = "tabs" -> {"summary_tab", "params_tab"}

Components == {"base", "reform", "refund", "ctc_c", "u6_bonus", "ps", "tabs"}

\* The value= of each component in app.layout.
LayoutValues ==
    [base |-> "cl", reform |-> "tcja", refund |-> "Nonref", ctc_c |-> 2000,
     u6_bonus |-> 0, ps |-> "CL", tabs |-> "summary_tab"]

Init ==
    /\ \E varied \in DatasetNames :
         \E frame \in Frames(varied, DashboardScenarios, MaxRows) :
            LoadData(varied, frame,
                     [n \in DatasetNames |-> CompleteFrame(n, DashboardScenarios)])
    /\ inputs = LayoutValues
    /\ result = NoCall
    /\ custom_style = [display |-> "none"]
    /\ args = NoCall
    /\ call = NoCall

\* A frame after the two filter_data calls update_graph makes on it.
FramesAfter(df, i) ==
    frame_after_filter(
        frame_after_filter(df, i.base, i.refund, i.ctc_c, i.u6_bonus, i.ps),
        i.reform, i.refund, i.ctc_c, i.u6_bonus, i.ps)

\* The outcome of update_graph on four frames with input values i.
OutcomeOn(bdf, pdf, ddf, prdf, i) ==
    update_graph(bdf, pdf, ddf, prdf,
                 i.base, i.reform, i.refund, i.ctc_c, i.u6_bonus, i.ps, i.tabs)

\* The outcome of update_graph on the loaded frames with input values i.
Outcome(i) == OutcomeOn(budget_df, poverty_df, dists_df, params_df, i)

\* update_graph runs once when the page loads, on the layout's values, and
\* then whenever one of its inputs changes.
UpdateGraph ==
    \E component \in Components :
      \E value \in ValuesOf(component) :
        /\ result = NoCall \/ value # inputs[component]
        /\ inputs' = [inputs EXCEPT ![component] = value]
        /\ result' = Outcome(inputs')
        /\ budget_df' = FramesAfter(budget_df, inputs')
        /\ poverty_df' = FramesAfter(poverty_df, inputs')
        /\ dists_df' = FramesAfter(dists_df, inputs')
        /\ params_df' = FramesAfter(params_df, inputs')
        /\ UNCHANGED <<custom_style, args, call>>

ToggleCustom ==
    /\ custom_style' = toggle_custom(inputs.reform)
    /\ UNCHANGED <<budget_df, poverty_df, dists_df, params_df,
                   inputs, result, args, call>>

Next == UpdateGraph \/ ToggleCustom

Spec == Init /\ [][Next]_vars

(***************************************************************************)
(* filter_data on its own: a frame of any of the four files, any policy.   *)
(***************************************************************************)
PolicyValues == NamedPolicies \cup {"custom", "other"}

FrameNamed(name) ==
    CASE name = "budget" -> budget_df
      [] name = "poverty" -> poverty_df
      [] name = "dists" -> dists_df
      [] name = "params" -> params_df

InitFilter ==
    /\ \E varied \in DatasetNames :
         /\ \E frame \in Frames(varied, FilterScenarios, MaxRows) :
               LoadData(varied, frame, [n \in DatasetNames |-> HeaderOnly(n)])
         /\ \E policy \in PolicyValues, refund \in ValuesOf("refund"),
               ctc_c \in ValuesOf("ctc_c"), u6_bonus \in ValuesOf("u6_bonus"),
               ps \in ValuesOf("ps") :
               args = [kind |-> "filter_data", df |-> varied, policy |-> policy,
                       refund |-> refund, ctc_c |-> ctc_c, u6_bonus |-> u6_bonus,
                       ps |-> ps]
    /\ inputs = LayoutValues
    /\ result = NoCall
    /\ custom_style = [display |-> "none"]
    /\ call = NoCall

FilterData ==
    /\ args.kind = "filter_data"
    /\ call = NoCall
    /\ call' = [kind |-> "returned",
                out |-> filter_data(FrameNamed(args.df), args.policy, args.refund,
                                    args.ctc_c, args.u6_bonus, args.ps)]
    /\ budget_df' = IF args.df = "budget"
                    THEN frame_after_filter(budget_df, args.policy, args.refund,
                                            args.ctc_c, args.u6_bonus, args.ps)
                    ELSE budget_df
    /\ poverty_df' = IF args.df = "poverty"
                     THEN frame_after_filter(poverty_df, args.policy, args.refund,
                                             args.ctc_c, args.u6_bonus, args.ps)
                     ELSE poverty_df
    /\ dists_df' = IF args.df = "dists"
                   THEN frame_after_filter(dists_df, args.policy, args.refund,
                                           args.ctc_c, args.u6_bonus, args.ps)
                   ELSE dists_df
    /\ params_df' = IF args.df = "params"
                    THEN frame_after_filter(params_df, args.policy, args.refund,
                                            args.ctc_c, args.u6_bonus, args.ps)
                    ELSE params_df
    /\ UNCHANGED <<inputs, result, custom_style, args>>

NextFilter == FilterData

SpecFilter == InitFilter /\ [][NextFilter]_vars

(***************************************************************************)
(* The table builders on their own: two value mappings, each the values of *)
(* one scenario with one field set to a drawn number and possibly one      *)
(* field left out.                                                         *)
(***************************************************************************)
BuildValues == {12040, 9510} \cup {5 * i : i \in 0..MaxStep}

\* The values of scenario i's rows (the ALL row of the distribution file),
\* with field f set to v and field miss ("none": no field) left out.
Mapping(i, f, v, miss) ==
    [k \in FieldNames \ {miss} |-> IF k = f THEN v ELSE CellValue(i, k, 0)]

InitBuild ==
    /\ LoadData("none", HeaderOnly("budget"), [n \in DatasetNames |-> HeaderOnly(n)])
    /\ inputs = LayoutValues
    /\ result = NoCall
    /\ custom_style = [display |-> "none"]
    /\ \E f \in FieldNames, b \in BuildValues, r \in BuildValues,
          bmiss \in FieldNames \cup {"none"}, rmiss \in FieldNames \cup {"none"} :
          args = [kind |-> "build",
                  base_vals |-> Mapping(1, f, b, bmiss),
                  reform_vals |-> Mapping(2, f, r, rmiss)]
    /\ call = NoCall

BuildSummary ==
    /\ args.kind = "build"
    /\ call = NoCall
    /\ call' = [kind |-> "build_summary_table",
                out |-> build_summary_table(args.base_vals, args.reform_vals)]
    /\ UNCHANGED <<budget_df, poverty_df, dists_df, params_df,
                   inputs, result, custom_style, args>>

BuildParam ==
    /\ args.kind = "build"
    /\ call = NoCall
    /\ call' = [kind |-> "build_param_table",
                out |-> build_param_table(args.base_vals, args.reform_vals)]
    /\ UNCHANGED <<budget_df, poverty_df, dists_df, params_df,
                   inputs, result, custom_style, args>>

NextBuild == BuildSummary \/ BuildParam

SpecBuild == InitBuild /\ [][NextBuild]_vars

(***************************************************************************)
(* Properties.                                                             *)
(***************************************************************************)
Range(q) == {q[i] : i \in DOMAIN q}

\* The documented mapping from scenario key to type column.
DocumentedType(policy) ==
    CASE policy = "cl" -> "CL"
      [] policy = "tcja" -> "TCJA"
      [] policy = "house25" -> "House25"
      [] policy = "senate25" -> "Senate25"

Returned == call.kind = "returned"

\* The frame filter_data was called on.
ArgFrame == FrameNamed(args.df)

\* C1: for a named scenario key, filter_data returns rows of the frame, each
\* with the documented type value, and exactly one of them per grouping the
\* frame holds for that scenario: one row, or one row per decile in the
\* distribution file; none when the frame does not hold the scenario.
C1_NamedKeyRows ==
    (Returned /\ args.policy \in NamedPolicies) =>
        LET t == DocumentedType(args.policy)
            held == {r \in Range(ArgFrame.rows) : r.type = t}
            out == call.out.rows
        IN /\ call.out.columns = ArgFrame.columns
           /\ \A i \in DOMAIN out : out[i] \in held /\ out[i].type = t
           /\ \A r \in held : Cardinality({i \in DOMAIN out : out[i] = r}) = 1
           /\ args.df # "dists" => Len(out) = IF held = {} THEN 0 ELSE 1
           /\ args.df = "dists" =>
                 \A d \in Deciles :
                    Cardinality({i \in DOMAIN out : out[i].decile = d})
                        = IF \E r \in held : r.decile = d THEN 1 ELSE 0

\* A named key on a distribution frame that holds the scenario's ALL row and
\* a per-decile row: both are returned.
C1_Witness ==
    /\ Returned
    /\ args.policy = "tcja"
    /\ args.df = "dists"
    /\ Len(ArgFrame.rows) = 2
    /\ Len(call.out.rows) = 2
    /\ {r.decile : r \in Range(call.out.rows)} = Deciles

\* The rows of a frame that match the four custom fields of the call.
CustomMatch(r) ==
    /\ r.type = args.refund
    /\ r.ctc_c = args.ctc_c
    /\ r.u6_bonus = args.u6_bonus
    /\ r.ps = args.ps

\* The number of the four custom fields in which a row differs from the call.
FieldsOff(r) ==
    (IF r.type = args.refund THEN 0 ELSE 1) + (IF r.ctc_c = args.ctc_c THEN 0 ELSE 1)
    + (IF r.u6_bonus = args.u6_bonus THEN 0 ELSE 1) + (IF r.ps = args.ps THEN 0 ELSE 1)

\* C3: for the custom key, filter_data returns exactly the rows of the frame
\* that match all four custom fields, in the frame's order; a row that
\* differs in any field is not returned, and no match gives an empty result.
C3_CustomConjunctive ==
    (Returned /\ args.policy = "custom") =>
        LET out == call.out.rows
        IN /\ call.out.columns = ArgFrame.columns
           /\ Range(out) = {r \in Range(ArgFrame.rows) : CustomMatch(r)}
           /\ \A r \in Range(ArgFrame.rows) : FieldsOff(r) >= 1 => r \notin Range(out)
           /\ \A r \in Range(out) :
                 Cardinality({i \in DOMAIN out : out[i] = r})
                     = Cardinality({i \in DOMAIN ArgFrame.rows : ArgFrame.rows[i] = r})
           /\ (\A r \in Range(ArgFrame.rows) : ~CustomMatch(r)) => out = <<>>

\* A custom call on a frame holding the matching row and a row that differs
\* from it in the under-6 bonus alone: only the former is returned.
C3_Witness ==
    /\ Returned
    /\ args.policy = "custom"
    /\ \E r \in Range(ArgFrame.rows) : FieldsOff(r) = 1 /\ r.u6_bonus # args.u6_bonus
    /\ \E r \in Range(ArgFrame.rows) : CustomMatch(r)
    /\ Len(call.out.rows) = 1

\* update_graph has run.
Called == result.kind # "none"

Recognized == NamedPolicies \cup {"custom"}

\* The frame filter_data gives update_graph for a selector, per data file.
Resolved(name, policy) ==
    filter_data(FrameNamed(name), policy, inputs.refund, inputs.ctc_c,
                inputs.u6_bonus, inputs.ps)

\* A selector resolves to no row in one of the files (for the distribution
\* file: to no ALL row).
NoRows(policy) ==
    \/ \E name \in DatasetNames : Len(Resolved(name, policy).rows) = 0
    \/ \A r \in Range(Resolved("dists", policy).rows) : r.decile # "ALL"

\* update_graph ended with an outcome that is neither an exception nor a table.
NoDataOutcome == result.kind \notin {"raise", "figure"}

\* C2: when a recognized selection resolves to zero rows in a file,
\* update_graph completes with a "no data available" outcome: it does not
\* raise and does not return a table.
C2_NoDataNotRaised ==
    (/\ Called
     /\ inputs.base \in Recognized
     /\ inputs.reform \in Recognized
     /\ NoRows(inputs.base) \/ NoRows(inputs.reform)) => NoDataOutcome

\* C4: for a selector outside the recognized set filter_data returns an empty
\* result for every file, and update_graph then completes with the same
\* outcome as for a zero-row match instead of raising.
C4_UnknownHandled ==
    (Called /\ (inputs.base \notin Recognized \/ inputs.reform \notin Recognized)) =>
        /\ \A name \in DatasetNames, policy \in {inputs.base, inputs.reform} \ Recognized :
              Len(Resolved(name, policy).rows) = 0
        /\ NoDataOutcome

Abs(x) == IF x < 0 THEN -x ELSE x

BuiltSummary == call.kind = "build_summary_table" /\ call.out.kind = "figure"

BuiltParam == call.kind = "build_param_table" /\ call.out.kind = "figure"

\* C5: in every row of the summary table the difference cell is the reform
\* cell minus the baseline cell of that row, rounded to one decimal place,
\* a tie going to the even tenth, on every row alike.
C5_DifferenceRounded ==
    BuiltSummary =>
        LET cells == call.out.cells
        IN /\ Len(cells) = 4
           /\ DOMAIN cells[4] = DOMAIN cells[2]
           /\ \A i \in DOMAIN cells[4] :
                 LET x == cells[3][i] - cells[2][i]
                     d == cells[4][i]
                 IN /\ d % 10 = 0
                    /\ Abs(d - x) <= 5
                    /\ Abs(d - x) = 5 => (d \div 10) % 2 = 0

\* The documented example: baseline mean 120.4 and reform mean 95.1 give a
\* difference of -25.3.
C5_Witness ==
    /\ BuiltSummary
    /\ call.out.cells[2][3] = 12040
    /\ call.out.cells[3][3] = 9510
    /\ call.out.cells[4][3] = -2530

\* The rows of a built table are those of the field specification, in its
\* order, each with the two values of its own field.
RowsFollow(spec, cells) ==
    /\ \A c \in 1..3 : DOMAIN cells[c] = DOMAIN spec
    /\ \A i \in DOMAIN spec :
          /\ cells[1][i] = spec[i][1]
          /\ cells[2][i] = args.base_vals[spec[i][2]]
          /\ cells[3][i] = args.reform_vals[spec[i][2]]

\* C6: a built table has one row per entry of its view's field
\* specification (seven for the summary view, eight for the parameter view),
\* in the specification's order, and row i carries the baseline and reform
\* values of field i.
C6_RowsFollowSpec ==
    /\ BuiltSummary =>
          /\ Len(call.out.cells[1]) \in 5..7
          /\ Len(call.out.cells) = 4
          /\ DOMAIN call.out.cells[4] = DOMAIN SummaryRows
          /\ RowsFollow(SummaryRows, call.out.cells)
    /\ BuiltParam =>
          /\ Len(call.out.cells[1]) = 8
          /\ Len(call.out.cells) = 3
          /\ RowsFollow(ParamRows, call.out.cells)

\* A parameter table built from mappings whose values differ between the
\* sides in a drawn field.
C6_Witness ==
    /\ BuiltParam
    /\ args.base_vals["pos"] = 5
    /\ args.reform_vals["pos"] = 12040
    /\ call.out.cells[2][7] = 5
    /\ call.out.cells[3][7] = 12040

\* The keys a view requires.
Required(spec) == {spec[i][2] : i \in DOMAIN spec}

\* A required key one of the two mappings lacks, by side.
Lacking(spec) ==
    {<<"baseline", k>> : k \in Required(spec) \ DOMAIN args.base_vals}
    \cup {<<"reform", k>> : k \in Required(spec) \ DOMAIN args.reform_vals}

\* The exception is a MissingField that names a lacking field and its side.
IsMissingField(out, spec) ==
    /\ out.kind = "raise"
    /\ out.exc = "MissingField"
    /\ "side" \in DOMAIN out
    /\ <<out.side, out.arg>> \in Lacking(spec)

\* C7: a builder given a mapping that lacks a required field fails with a
\* MissingField condition naming the field and the side, and returns no table.
C7_MissingFieldRaised ==
    /\ (call.kind = "build_summary_table" /\ Lacking(SummaryRows) # {}) =>
          IsMissingField(call.out, SummaryRows)
    /\ (call.kind = "build_param_table" /\ Lacking(ParamRows) # {}) =>
          IsMissingField(call.out, ParamRows)

\* C8: no callback changes a loaded frame, and after every interaction
\* update_graph run again on the same input values gives the same outcome.
C8_FramesUnchanged ==
    [][/\ budget_df' = budget_df
       /\ poverty_df' = poverty_df
       /\ dists_df' = dists_df
       /\ params_df' = params_df
       /\ Called' => result' = OutcomeOn(budget_df', poverty_df', dists_df',
                                         params_df', inputs')]_vars

\* Both callbacks have run, update_graph on the custom reform.
C8_Witness ==
    /\ result.kind = "figure"
    /\ inputs.reform = "custom"
    /\ custom_style.display = "block"

\* The rows of the distribution file that belong to a selector's scenario.
ScenarioRows(policy) ==
    {r \in Range(dists_df.rows) :
        IF policy \in NamedPolicies THEN r.type = DocumentedType(policy)
        ELSE /\ policy = "custom"
             /\ r.type = inputs.refund
             /\ r.ctc_c = inputs.ctc_c
             /\ r.u6_bonus = inputs.u6_bonus
             /\ r.ps = inputs.ps}

\* Column c of the summary table shows the three distribution metrics of an
\* ALL row of the selector's scenario.
FromALLRow(policy, c) ==
    \E r \in ScenarioRows(policy) :
        /\ r.decile = "ALL"
        /\ result.cells[c][3] = r.mean
        /\ result.cells[c][4] = r.pc_aftertaxinc
        /\ result.cells[c][5] = r.metr_reform

\* C9: the three distribution metrics of each side are those of the ALL row
\* of the resolved scenario, wherever that row stands in the file.
C9_MetricsFromALL ==
    (result.kind = "figure" /\ inputs.tabs = "summary_tab") =>
        /\ FromALLRow(inputs.base, 2)
        /\ FromALLRow(inputs.reform, 3)

\* A summary table built while a per-decile row of the baseline scenario
\* stands before its ALL row in the distribution file.
C9_Witness ==
    /\ result.kind = "figure"
    /\ inputs.tabs = "summary_tab"
    /\ \E i, j \in DOMAIN dists_df.rows :
          /\ i < j
          /\ dists_df.rows[i] \in ScenarioRows(inputs.base)
          /\ dists_df.rows[j] \in ScenarioRows(inputs.base)
          /\ dists_df.rows[i].decile = "1"
          /\ dists_df.rows[j].decile = "ALL"

\* The input values with the four custom parameters replaced.
WithCustom(refund, ctc_c, u6_bonus, ps) ==
    [inputs EXCEPT !.refund = refund, !.ctc_c = ctc_c,
                   !.u6_bonus = u6_bonus, !.ps = ps]

\* The outcomes of update_graph over every value of the four custom
\* parameters, the other inputs as they are.
CustomOutcomes ==
    {Outcome(WithCustom(refund, ctc_c, u6_bonus, ps)) :
        refund \in ValuesOf("refund"), ctc_c \in ValuesOf("ctc_c"),
        u6_bonus \in ValuesOf("u6_bonus"), ps \in ValuesOf("ps")}

====
